---- MODULE Spec2Model ----
(***************************************************************************)
(* Model of src/main/handlers.go: the HTTP handlers NewLicense and         *)
(* RevokeLicense, the helper revokeLicense and the dispatcher              *)
(* appHandler.ServeHTTP.  Request-handling units run concurrently; the     *)
(* only shared state is the object "revocations.txt" in blob storage.      *)
(* revokeLicense touches the object twice (one ReadFile, one WriteFile),   *)
(* so one call is three steps: the request arrives, the read, the write    *)
(* together with the return and the response.                              *)
(***************************************************************************)
EXTENDS Integers, Sequences, FiniteSets, TLC

\* ------------------------------------------------------------------------
\* Bounds and input domains

\* number of concurrent request-handling units; each handles one request
NumProcs == 2

Procs == 1..NumProcs

\* the byte "\n" that revokeLicense puts before the appended ID
NL == 10

\* license identifiers as byte strings: the empty one, "a", "b" and "a\nb"
\* (the {ID} of the route is any path segment)
IDs == {<<>>, <<97>>, <<98>>, <<97, NL, 98>>}

\* product names a request body can carry
Products == {"", "domain_changer"}

\* request bodies for NewLicense: malformed JSON, or JSON carrying a product
Bodies == {[ok |-> FALSE, product |-> ""]} \cup {[ok |-> TRUE, product |-> x] : x \in Products}

\* the response before any was written
NoResp == [code |-> 0, body |-> "", lic |-> {}]

\* the nil *appError
NilErr == [code |-> 0, body |-> "nil", lic |-> {}]

\* resp[p] is the sequence of responses written to p's http.ResponseWriter;
\* env[p] holds the outcomes of getPrivateKey and lic.Encode for p's request
VARIABLES exists, file, version, pc, op, id, body, env, data, readVer, ret, resp

vars == <<exists, file, version, pc, op, id, body, env, data, readVer, ret, resp>>

store == <<exists, file, version>>

\* ------------------------------------------------------------------------
\* Serialized form of the revocation record

RECURSIVE Split(_)
\* The entries of a record, cut at every "\n" (the inverse of the join that
\* revokeLicense performs); like strings.Split, n delimiters give n+1 entries.
Split(s) ==
    IF \A k \in 1..Len(s) : s[k] # NL
    THEN <<s>>
    ELSE LET k == CHOOSE j \in 1..Len(s) : s[j] = NL /\ \A m \in 1..(j-1) : s[m] # NL
         IN <<SubSeq(s, 1, k-1)>> \o Split(SubSeq(s, k+1, Len(s)))

\* The membership set of a stored object; an absent object has no member.
MembersOf(e, s) == IF e THEN {Split(s)[k] : k \in 1..Len(Split(s))} ELSE {}

Members == MembersOf(exists, file)

\* IsRevoked(id): one read of the current object, then membership.
IsRevoked(i) == i \in Members

\* An ID is syntactically valid when it is non-empty and holds no delimiter.
ValidID(i) == Len(i) > 0 /\ \A k \in 1..Len(i) : i[k] # NL

\* ------------------------------------------------------------------------
\* revokeLicense

\* Blob storage, ReadFile: the error it returns, "nil" when it returns the
\* bytes.  An absent object is NotFound; ioerr is a backend failure.
ReadFile(e, ioerr) == IF ~e THEN "NotFound" ELSE IF ioerr THEN "ReadError" ELSE "nil"

\* Blob storage, WriteFile: the content of the object afterwards.  The new
\* content is installed whole, or the write fails and installs nothing.
WriteFile(old, new, werr) == IF werr THEN old ELSE new

\* The version token of the object after a write: it changes on every
\* successful write.
NextVersion(v, werr) == IF werr THEN v ELSE v + 1

\* line 88: data = []byte(string(data) + "\n" + line)
Append88(d, i) == d \o <<NL>> \o i

\* the condition of line 90 inverted: an error is returned after a write
\* that succeeded
RevokeReturnInverted(werr) == IF werr THEN "nil" ELSE "WriteError"

\* lines 90-94: the error of WriteFile is returned, nil otherwise
RevokeReturn(werr) == IF werr THEN "WriteError" ELSE "nil"

\* appHandler.ServeHTTP, lines 26-29: after the handler wrote w, an error
\* response is written when the handler returned an error
ServeHTTP(w, e) == IF e # NilErr THEN Append(w, e) ELSE w

\* RevokeLicense, lines 102-104: the *appError returned
RevokeLicenseError(r) ==
    IF r # "nil"
    THEN [code |-> 500, body |-> "An error occurred updating the revocations file", lic |-> {}]
    ELSE NilErr

\* writeJSON moved before the test of the error: SUCCESS is written on
\* every path
RevokeLicenseWritesAlways(r) == <<[code |-> 200, body |-> "SUCCESS", lic |-> {}]>>

\* RevokeLicense, lines 102-106: what the handler itself writes
RevokeLicenseWrites(r) ==
    IF r # "nil" THEN <<>> ELSE <<[code |-> 200, body |-> "SUCCESS", lic |-> {}]>>

\* the responses of one revoke request: RevokeLicense under ServeHTTP
RevokeResponse(r) == ServeHTTP(RevokeLicenseWrites(r), RevokeLicenseError(r))

Init ==
    /\ exists \in BOOLEAN
    /\ file = <<>>
    /\ version = 0
    /\ pc = [p \in Procs |-> "idle"]
    /\ op = [p \in Procs |-> "none"]
    /\ id = [p \in Procs |-> <<>>]
    /\ body = [p \in Procs |-> [ok |-> FALSE, product |-> ""]]
    /\ env = [p \in Procs |-> [key |-> FALSE, enc |-> FALSE]]
    /\ data = [p \in Procs |-> <<>>]
    /\ readVer = [p \in Procs |-> 0]
    /\ ret = [p \in Procs |-> "none"]
    /\ resp = [p \in Procs |-> <<>>]

\* A POST /api/licenses/{ID}/revoke arrives: lines 99-102, id := vars["id"].
RevokeStart(p) ==
    /\ pc[p] = "idle"
    /\ \E i \in IDs : id' = [id EXCEPT ![p] = i]
    /\ op' = [op EXCEPT ![p] = "revoke"]
    /\ pc' = [pc EXCEPT ![p] = "reading"]
    /\ UNCHANGED <<exists, file, version, body, env, data, readVer, ret, resp>>

\* lines 78-83, ReadFile returned the bytes of the object.
RevokeRead(p) ==
    /\ pc[p] = "reading"
    /\ ReadFile(exists, FALSE) = "nil"
    /\ data' = [data EXCEPT ![p] = file]
    /\ readVer' = [readVer EXCEPT ![p] = version]
    /\ pc' = [pc EXCEPT ![p] = "writing"]
    /\ UNCHANGED <<exists, file, version, op, id, body, env, ret, resp>>

\* lines 79-83, ReadFile returned an error: the object is absent (NotFound)
\* or the backend failed; revokeLicense returns it, RevokeLicense answers 500.
RevokeReadFail(p) ==
    /\ pc[p] = "reading"
    /\ \E ioerr \in BOOLEAN :
        /\ ReadFile(exists, ioerr) # "nil"
        /\ ret' = [ret EXCEPT ![p] = ReadFile(exists, ioerr)]
    /\ resp' = [resp EXCEPT ![p] = resp[p] \o RevokeResponse(ret'[p])]
    /\ pc' = [pc EXCEPT ![p] = "done"]
    /\ UNCHANGED <<exists, file, version, op, id, body, env, data, readVer>>

\* RevokeWrite with a retry that has no bound: a failed write sends the call
\* back to its read instead of returning the error
RevokeWriteRetry(p) ==
    /\ pc[p] = "writing"
    /\ \E werr \in BOOLEAN :
        /\ file' = WriteFile(file, Append88(data[p], id[p]), werr)
        /\ version' = NextVersion(version, werr)
        /\ ret' = [ret EXCEPT ![p] = IF werr THEN ret[p] ELSE "nil"]
        /\ resp' = [resp EXCEPT ![p] = IF werr THEN resp[p] ELSE resp[p] \o RevokeResponse("nil")]
        /\ pc' = [pc EXCEPT ![p] = IF werr THEN "reading" ELSE "done"]
    /\ UNCHANGED <<exists, op, id, body, env, data, readVer>>

\* lines 85-94 and 102-108: the new content is built from the bytes read
\* and handed to WriteFile, which installs it whole or fails and installs
\* nothing; then the return and the response.
RevokeWrite(p) ==
    /\ pc[p] = "writing"
    /\ \E werr \in BOOLEAN :
        /\ file' = WriteFile(file, Append88(data[p], id[p]), werr)
        /\ version' = NextVersion(version, werr)
        /\ ret' = [ret EXCEPT ![p] = RevokeReturn(werr)]
    /\ resp' = [resp EXCEPT ![p] = resp[p] \o RevokeResponse(ret'[p])]
    /\ pc' = [pc EXCEPT ![p] = "done"]
    /\ UNCHANGED <<exists, op, id, body, env, data, readVer>>

\* ------------------------------------------------------------------------
\* NewLicense, lines 43-66, one step: decode, load the key, build and
\* encode the license, answer.

\* the test of the key error dropped: a license is encoded and returned
\* although getPrivateKey failed
NewLicenseErrorNoKeyCheck(b, keyOk, encOk) ==
    IF ~b.ok THEN [code |-> 400, body |-> "Could not decode json request", lic |-> {}]
    ELSE IF ~encOk THEN [code |-> 500, body |-> "Could not encode the license", lic |-> {}]
    ELSE NilErr

\* lines 47-62: the *appError NewLicense returns, NilErr on line 65
NewLicenseError(b, keyOk, encOk) ==
    IF ~b.ok THEN [code |-> 400, body |-> "Could not decode json request", lic |-> {}]
    ELSE IF ~keyOk THEN [code |-> 500, body |-> "Could not load private key for signing", lic |-> {}]
    ELSE IF ~encOk THEN [code |-> 500, body |-> "Could not encode the license", lic |-> {}]
    ELSE NilErr

\* line 64: writeJSON(w, 200, licStr), reached when no error was returned;
\* lic is the Product of the license that the token encodes
NewLicenseWrites(b, keyOk, encOk) ==
    IF NewLicenseError(b, keyOk, encOk) # NilErr THEN <<>>
    ELSE <<[code |-> 200, body |-> "licStr", lic |-> {b.product}]>>

\* the responses of one create request: NewLicense under ServeHTTP
NewLicenseResponse(b, keyOk, encOk) ==
    ServeHTTP(NewLicenseWrites(b, keyOk, encOk), NewLicenseError(b, keyOk, encOk))

\* NewLicense that also records the issued license in the revocation object
NewLicenseTouchesStore(p) ==
    /\ pc[p] = "idle"
    /\ \E b \in Bodies, keyOk \in BOOLEAN, encOk \in BOOLEAN :
        /\ body' = [body EXCEPT ![p] = b]
        /\ env' = [env EXCEPT ![p] = [key |-> keyOk, enc |-> encOk]]
        /\ resp' = [resp EXCEPT ![p] = resp[p] \o NewLicenseResponse(b, keyOk, encOk)]
    /\ op' = [op EXCEPT ![p] = "create"]
    /\ pc' = [pc EXCEPT ![p] = "done"]
    /\ file' = Append88(file, <<97>>)
    /\ version' = version + 1
    /\ UNCHANGED <<exists, id, data, readVer, ret>>

NewLicense(p) ==
    /\ pc[p] = "idle"
    /\ \E b \in Bodies, keyOk \in BOOLEAN, encOk \in BOOLEAN :
        /\ body' = [body EXCEPT ![p] = b]
        /\ env' = [env EXCEPT ![p] = [key |-> keyOk, enc |-> encOk]]
        /\ resp' = [resp EXCEPT ![p] = resp[p] \o NewLicenseResponse(b, keyOk, encOk)]
    /\ op' = [op EXCEPT ![p] = "create"]
    /\ pc' = [pc EXCEPT ![p] = "done"]
    /\ UNCHANGED <<exists, file, version, id, data, readVer, ret>>

Next ==
    \E p \in Procs :
        \/ RevokeStart(p)
        \/ RevokeRead(p)
        \/ RevokeReadFail(p)
        \/ RevokeWrite(p)
        \/ NewLicense(p)

Spec == Init /\ [][Next]_vars

\* The runtime schedules every request-handling unit and every call to the
\* storage backend returns: a call that can read or write eventually does.
FairSpec ==
    /\ Spec
    /\ \A p \in Procs : WF_vars(RevokeRead(p) \/ RevokeReadFail(p))
    /\ \A p \in Procs : WF_vars(RevokeWrite(p))

\* ------------------------------------------------------------------------
\* Properties

\* the IDs of the Revoke calls that returned success
okIds == {id[p] : p \in {q \in Procs : op[q] = "revoke" /\ ret[q] = "nil"}}

\* the requests that are revocations
Revokers == {p \in Procs : op[p] = "revoke"}

\* errors that come from a failure of the storage backend
BackendErrors == {"ReadError", "WriteError"}

\* no request is in flight
Quiescent == \A p \in Procs : pc[p] \in {"idle", "done"}

\* the response the client of p's request got, NoResp before any
Answer(p) == IF resp[p] = <<>> THEN NoResp ELSE resp[p][Len(resp[p])]

\* p takes a step of its request
Steps(p) == pc'[p] # pc[p]

\* C1: no lost update.  Revoke calls with pairwise distinct valid IDs run against
\* an initially empty record and a backend that does not fail; when all
\* have returned, each ended in success or ConcurrentUpdateFailed and the
\* ID of each successful call is a member of the final record.
C1_NoLostUpdate ==
    ( /\ exists
      /\ Quiescent
      /\ \A p \in Revokers : ValidID(id[p])
      /\ \A p, q \in Revokers : p # q => id[p] # id[q]
      /\ \A p \in Revokers : ret[p] \notin BackendErrors )
    => /\ \A p \in Revokers : ret[p] \in {"nil", "ConcurrentUpdateFailed"}
       /\ \A i \in okIds : i \in Members

\* C2: revocation is monotonic: no step shrinks the membership set.
C2_Monotonic == [][Members \subseteq MembersOf(exists', file')]_vars

\* C3: Revoke is idempotent: a call for a (valid) ID that is already a
\* member of the record it read issues no write and leaves the stored
\* record unchanged.
C3_Idempotent ==
    [][\A p \in Revokers :
        (pc[p] = "writing" /\ Steps(p) /\ ValidID(id[p]) /\ id[p] \in MembersOf(TRUE, data[p]))
        => UNCHANGED store]_vars

\* C4: every write is conditional on the version read in the same attempt:
\* a write is installed only when the object's version still equals it.
C4_ConditionalWrite ==
    [][\A p \in Revokers :
        (Steps(p) /\ version' # version) => version = readVer[p]]_vars

\* C5: with calls for valid IDs only, IsRevoked(id) is false before any
\* Revoke(id) has committed and true in every state after a Revoke(id)
\* returned success.
C5_IsRevoked ==
    (\A p \in Procs : op[p] = "revoke" => ValidID(id[p]))
    => \A i \in {j \in IDs : ValidID(j)} :
        /\ i \notin okIds => ~IsRevoked(i)
        /\ i \in okIds => IsRevoked(i)

\* C6: absence of the revocation object is a valid initial state: no
\* Revoke call fails because the object is missing.
C6_AbsenceIsEmpty == \A p \in Revokers : ret[p] # "NotFound"

\* C7: CreateLicense with an empty product fails with a client error and
\* issues no token; no issued license has an empty Product.
C7_InvalidProduct ==
    \A p \in Procs :
        /\ (op[p] = "create" /\ body[p].ok /\ body[p].product = "")
           => (Answer(p).code = 400 /\ Answer(p).lic = {})
        /\ "" \notin Answer(p).lic

\* C8: Revoke with a syntactically invalid ID (the empty string) fails with
\* InvalidID: a call for it that the backend did not fail ends in InvalidID,
\* never in success.
C8_InvalidID ==
    \A p \in Revokers :
        (pc[p] = "done" /\ ~ValidID(id[p])) => ret[p] \in {"InvalidID"} \cup BackendErrors \cup {"NotFound"}

invokedIds == {id[p] : p \in Revokers}

\* C11: the protocol refines a linearizable append-only ledger: with valid
\* IDs, in every state the membership set is that of the initial record
\* plus the IDs of a set of calls that contains every call that returned
\* success and only calls already invoked.
C11_LinearizableLedger ==
    (exists /\ \A p \in Revokers : ValidID(id[p]))
    => /\ MembersOf(TRUE, <<>>) \cup okIds \subseteq Members
       /\ Members \subseteq MembersOf(TRUE, <<>>) \cup invokedIds

\* the terminal states of a Revoke call
Done(p) == pc[p] = "done" /\ ret[p] = "nil"
Fail(p) == pc[p] = "done" /\ ret[p] # "nil"

NoOverlap ==
    \A p, q \in Revokers : (p # q /\ Done(p) /\ Done(q)) => readVer[p] # readVer[q]

\* C13: once a Revoke has committed, and with calls that did not overlap,
\* the membership set parsed from the stored record is exactly the set of
\* IDs whose Revoke committed: no spurious member, no identifier split or
\* merged.
C13_ParsedIsCommitted ==
    (exists /\ file # <<>> /\ NoOverlap) => Members = okIds

\* the create requests that were handled
Creators == {p \in Procs : op[p] = "create"}

\* C14: CreateLicense returns a token only when key retrieval and signing
\* both succeeded: a failing key provider gives KeyUnavailable (500) and a
\* failing encoding gives SigningFailed (500), neither with a token.
C14_TokenNeedsKeyAndSignature ==
    \A p \in Creators :
        /\ Answer(p).code = 200 => (body[p].ok /\ env[p].key /\ env[p].enc)
        /\ (body[p].ok /\ ~env[p].key)
           => (Answer(p).code = 500 /\ Answer(p).body = "Could not load private key for signing"
               /\ Answer(p).lic = {})
        /\ (body[p].ok /\ env[p].key /\ ~env[p].enc)
           => (Answer(p).code = 500 /\ Answer(p).body = "Could not encode the license"
               /\ Answer(p).lic = {})

\* one request met a failing key provider and one a failing encoding
C14_Witness ==
    /\ \E p \in Creators : body[p].ok /\ ~env[p].key /\ Answer(p).code = 500
    /\ \E p \in Creators : body[p].ok /\ env[p].key /\ ~env[p].enc /\ Answer(p).code = 500

\* C15: CreateLicense never touches the revocation record: every step of a
\* create request leaves the stored object and its version unchanged.
C15_CreateLeavesStore ==
    [][\A p \in Procs : (op'[p] = "create" /\ Steps(p)) => UNCHANGED store]_vars

\* a create request was handled while a revocation had committed
C15_Witness ==
    /\ \E p \in Creators : Answer(p).code \in {200, 500}
    /\ \E q \in Revokers : Done(q) /\ file # <<>>

\* C16: progress under contention, for valid IDs: a call ends in ConcurrentUpdateFailed
\* only if the version it read is no longer the current one; when all calls
\* have returned and the backend did not fail, at least one committed; and
\* a call with no concurrent writer succeeds (on its first attempt) unless
\* the backend failed.
C16_Progress ==
    /\ \A p \in Revokers : ret[p] = "ConcurrentUpdateFailed" => version # readVer[p]
    /\ ( /\ Quiescent
         /\ Revokers # {}
         /\ \A p \in Revokers : ValidID(id[p]) /\ ret[p] \notin BackendErrors )
       => \E q \in Revokers : Done(q)
    /\ \A p \in Revokers :
        (pc[p] = "done" /\ Revokers = {p} /\ ValidID(id[p]) /\ ret[p] \notin BackendErrors)
        => Done(p)

\* the last entry of a record
LastEntry(s) == Split(s)[Len(Split(s))]

\* C17: a successful call that did not overlap another writer (the version
\* it read is still the current one) preserves every byte of the previous
\* content and adds its ID as a new last entry, so that the members before
\* and the new ID are members afterwards.
C17_AppendsLastEntry ==
    [][\A p \in Revokers :
        (pc[p] = "writing" /\ Done(p)' /\ readVer[p] = version)
        => /\ SubSeq(file', 1, Len(file)) = file
           /\ LastEntry(file') = id[p]
           /\ Len(Split(file')) = Len(Split(file)) + 1
           /\ Members \cup {id[p]} \subseteq MembersOf(exists', file')]_vars

\* C18: each handled request got exactly one response, none before it was
\* handled; a revocation was answered 200 "SUCCESS" exactly when
\* revokeLicense returned no error and 500 otherwise; a create request was
\* answered 200 exactly when NewLicense returned no error.
C18_OneResponse ==
    \A p \in Procs :
        /\ pc[p] # "done" => resp[p] = <<>>
        /\ pc[p] = "done" => Len(resp[p]) = 1
        /\ (pc[p] = "done" /\ op[p] = "revoke")
           => /\ (Answer(p).code = 200 /\ Answer(p).body = "SUCCESS") <=> ret[p] = "nil"
              /\ Answer(p).code = 500 <=> ret[p] # "nil"
        /\ op[p] = "create"
           => (Answer(p).code = 200 <=> (body[p].ok /\ env[p].key /\ env[p].enc))

\* a revocation that succeeded and one that failed were each answered
C18_Witness ==
    /\ \E p \in Revokers : Done(p) /\ Answer(p).code = 200
    /\ \E p \in Revokers : Fail(p) /\ Answer(p).code = 500

====
